---- MODULE Spec2Model ----
(***************************************************************************)
(* View-model logic of the rotki front-end: the underlying-token manager   *)
(* (list upsert / edit / delete), the NFT gallery (price merge, filter,    *)
(* sort, pagination, mounted fetches), the DeFi overview (sorted assets),  *)
(* the tag filter (remove) and the nightly CI workflow (job ordering and   *)
(* the failure notification).                                              *)
(***************************************************************************)
EXTENDS Integers, Sequences, FiniteSets, TLC

(***************************************************************************)
(* State                                                                   *)
(***************************************************************************)
\* UnderlyingTokenManager
VARIABLES
    value,              \* props.value: the list the parent passes in
    underlyingAddress,  \* ref, form field
    tokenKind,          \* ref, form field
    underlyingWeight,   \* ref, form field
    emitted,            \* payload of the last 'input' event
    call,               \* the last handler run: its name, the list it read, its argument
    startedDistinct,    \* the list at construction had pairwise distinct addresses
    owed                \* tokens of the list at construction that no deleteToken removed
                        \* and no addToken replaced

tokenVars == <<value, underlyingAddress, tokenKind, underlyingWeight, emitted,
               call, startedDistinct, owed>>

\* NftGallery
VARIABLES
    prices, priceError, total, limit, error, loading, perAccount,
    sortBy, sortDescending,
    width,                 \* useDisplay().width; the breakpoint name follows from it
    page, selectedAccounts, selectedCollection,
    nftsCache,             \* the array the computed `nfts` holds (sorted in place by `items`)
    pricesCall,            \* fetchPrices: "idle" | "pending" | "done" | "failed"
    nftsCall               \* fetchNfts: "idle" | "pending" | "done" | "failed"

galleryVars == <<prices, priceError, total, limit, error, loading, perAccount,
                 sortBy, sortDescending, width, page, selectedAccounts,
                 selectedCollection, nftsCache, pricesCall, nftsCall>>

\* Nightly workflow
VARIABLES
    status,     \* per job: "waiting" | "running" | "success" | "failure"
    notified    \* notifier.py was run with the webhook

nightlyVars == <<status, notified>>

\* DeFi Overview
VARIABLES
    summary,        \* props.summary; its assets array is the parent's own array
    assets,         \* the value the computed `assets` holds
    assetsDirty,    \* the computed has not been evaluated since summary was passed
    passedAssets    \* summary.assets in the order the parent passed it

overviewVars == <<summary, assets, assetsDirty, passedAssets>>

\* Tag filter
VARIABLES
    tagsValue,      \* props.value: the selected tag names
    tagsEmitted,    \* payload of the last 'input' event
    tagsCall        \* the last handler run: its name, the list it read, its argument

tagFilterVars == <<tagsValue, tagsEmitted, tagsCall>>

\* sortNfts applied to chosen NFTs
VARIABLES
    compared,       \* the NFTs a, b, c and the sort key sortNfts is applied to
    comparison      \* the values sortNfts returned, per direction

sortNftsVars == <<compared, comparison>>

vars == <<tokenVars, galleryVars, nightlyVars, overviewVars, tagFilterVars, sortNftsVars>>

(***************************************************************************)
(* Small helpers                                                           *)
(***************************************************************************)
Null == "<null>"

Min(S) == CHOOSE x \in S : \A y \in S : x <= y

SeqsUpTo(S, n) == UNION {[1..k -> S] : k \in 0..n}

\* The number of tokens the list may grow to.
MaxTokens == 3

(***************************************************************************)
(* UnderlyingTokenManager (src/unnamed/part_000)                           *)
(***************************************************************************)
Addresses == {"0xA", "0xB"}
TokenKinds == {"erc20", "erc721"}
ValidWeights == {"50"}
\* What the text fields can hold: '' initially, null after VForm.reset().
AddressInputs == Addresses \cup {""}
WeightInputs == ValidWeights \cup {"", "101"}

UnderlyingTokens == [address : Addresses, tokenKind : TokenKinds, weight : ValidWeights]

NoToken == [address |-> Null, tokenKind |-> Null, weight |-> Null]

DistinctAddresses(list) ==
    \A i, j \in 1..Len(list) : list[i].address = list[j].address => i = j

\* rules.address: required and isValidEthAddress
AddressValid(a) == a \in Addresses

\* rules.weight: required, numeric, between(1, 100)
WeightValid(w) == w \in ValidWeights

\* v$.$invalid, which disables the add button
FormInvalid == ~(AddressValid(underlyingAddress) /\ WeightValid(underlyingWeight))

\* A plausible slip: a predicate that never matches (the wrong field compared).
FindIndexNever(list, a) == -1

\* underlyingTokens.findIndex(({ address }) => address === a): first match or -1
FindIndex(list, a) ==
    LET hits == {i \in 1..Len(list) : list[i].address = a}
    IN  IF hits = {} THEN -1 ELSE Min(hits) - 1

\* A plausible slip: always push, never replace.
UpsertAlwaysPush(list, token) == Append(list, token)

\* lines 58-73 of addToken: replace at the found index, else push
Upsert(list, token) ==
    LET index == FindIndex(list, token.address)
    IN  IF index >= 0 THEN [list EXCEPT ![index + 1] = token]
        ELSE Append(list, token)

RECURSIVE Filter(_, _)
\* A plausible slip: drop only the first token with the address.
FilterFirstOnly(list, address) ==
    LET index == FindIndex(list, address)
    IN  IF index < 0 THEN list
        ELSE SubSeq(list, 1, index) \o SubSeq(list, index + 2, Len(list))

\* underlyingTokens.filter(({ address: tokenAddress }) => tokenAddress !== address)
Filter(list, address) ==
    IF list = <<>> THEN <<>>
    ELSE IF Head(list).address # address
         THEN <<Head(list)>> \o Filter(Tail(list), address)
         ELSE Filter(Tail(list), address)

\* v-model of the three inputs
Typed(address, kind, weight) ==
    /\ underlyingAddress' = address
    /\ tokenKind' = kind
    /\ underlyingWeight' = weight
    /\ call' = [op |-> "input", before |-> value, token |-> NoToken]
    /\ emitted' = <<>>
    /\ UNCHANGED <<galleryVars, nightlyVars, overviewVars, tagFilterVars, sortNftsVars>>
    /\ UNCHANGED <<value, startedDistinct, owed>>

SetAddress == \E a \in AddressInputs : a # underlyingAddress /\ Typed(a, tokenKind, underlyingWeight)

SetTokenKind == \E k \in TokenKinds : k # tokenKind /\ Typed(underlyingAddress, k, underlyingWeight)

SetWeight == \E w \in WeightInputs : w # underlyingWeight /\ Typed(underlyingAddress, tokenKind, w)

\* addToken; the parent's v-model applies the emitted list to the prop.
\* form.reset() (Vuetify) sets every registered input's model to null.
AddToken ==
    /\ ~FormInvalid
    /\ LET token == [address |-> underlyingAddress, tokenKind |-> tokenKind,
                     weight |-> underlyingWeight]
           underlyingTokens == Upsert(value, token)
       IN  /\ Len(underlyingTokens) <= MaxTokens
           /\ emitted' = underlyingTokens
           /\ value' = underlyingTokens
           /\ call' = [op |-> "addToken", before |-> value, token |-> token]
    /\ underlyingAddress' = Null
    /\ tokenKind' = Null
    /\ underlyingWeight' = Null
    /\ owed' = {t \in owed : \/ t.address # underlyingAddress
                              \/ t = [address |-> underlyingAddress, tokenKind |-> tokenKind,
                                      weight |-> underlyingWeight]}
    /\ UNCHANGED <<galleryVars, nightlyVars, overviewVars, tagFilterVars, sortNftsVars>>
    /\ UNCHANGED startedDistinct

\* deleteToken(address): a row's delete button passes the row's address; the
\* function itself takes any address, so every address is tried.
DeleteToken ==
    \E address \in Addresses :
        /\ emitted' = Filter(value, address)
        /\ value' = emitted'
        /\ call' = [op |-> "deleteToken", before |-> value,
                    token |-> [NoToken EXCEPT !.address = address]]
        /\ UNCHANGED <<galleryVars, nightlyVars, overviewVars, tagFilterVars, sortNftsVars>>
        /\ owed' = {t \in owed : t.address # address}
        /\ UNCHANGED <<underlyingAddress, tokenKind, underlyingWeight, startedDistinct>>

\* editToken(token), from a row's edit button
EditToken ==
    \E i \in 1..Len(value) :
        LET token == value[i]
        IN  /\ underlyingAddress' = token.address
            /\ tokenKind' = token.tokenKind
            /\ underlyingWeight' = token.weight
            /\ emitted' = Filter(value, token.address)
            /\ value' = emitted'
            /\ call' = [op |-> "editToken", before |-> value, token |-> token]
            /\ UNCHANGED <<galleryVars, nightlyVars, overviewVars, tagFilterVars, sortNftsVars>>
            /\ UNCHANGED <<startedDistinct, owed>>

NextTokens ==
    \/ SetAddress
    \/ SetTokenKind
    \/ SetWeight
    \/ AddToken
    \/ DeleteToken
    \/ EditToken

(***************************************************************************)
(* NftGallery (src/frontend/app/src/components/nft/NftGallery.vue)         *)
(***************************************************************************)
\* What the backend can hand back.  Names and collection names are
\* string | null; prices are BigNumbers, modelled as integers.
Nft(id, name, collection, priceEth, priceUsd) ==
    [tokenIdentifier |-> id, name |-> name, collection |-> [name |-> collection],
     priceEth |-> priceEth, priceUsd |-> priceUsd]

Nft1 == Nft("nft1", "bee", "punks", 2, 20)
Nft2 == Nft("nft2", Null, "Apes", 1, 10)
Nft3 == Nft("nft3", "", Null, 3, 30)
Nft4 == Nft("nft4", "Ape", "Apes", 1, 10)
Nft5 == Nft("nft5", "ape", "punks", 0, 0)

NullAccounts == [tag |-> "null", list |-> <<>>]
Accounts(list) == [tag |-> "nfts", list |-> list]

\* result of nftFetch: { entriesFound, entriesLimit, addresses }
NftResults == {
    [entriesFound |-> 4, entriesLimit |-> 5,
     addresses |-> Accounts(<<[address |-> "0x1", nfts |-> <<Nft1, Nft2, Nft3>>],
                              [address |-> "0x2", nfts |-> <<Nft4>>]>>)],
    [entriesFound |-> 2, entriesLimit |-> 5,
     addresses |-> Accounts(<<[address |-> "0x2", nfts |-> <<Nft4, Nft5>>]>>)],
    [entriesFound |-> 0, entriesLimit |-> 5, addresses |-> Accounts(<<>>)] }

\* results of fetchNftsPrices: one entry per asset
PriceResults == {
    <<[asset |-> "nft1", manuallyInput |-> TRUE, priceAsset |-> "USD",
       priceInAsset |-> 5, usdPrice |-> 5],
      [asset |-> "nft2", manuallyInput |-> FALSE, priceAsset |-> "DAI",
       priceInAsset |-> 70, usdPrice |-> 70]>> }

\* window widths tried, one or two per breakpoint that matters
Widths == {500, 800, 1500, 1700}

SortProperties == {"name", "priceUsd", "collection"}

\* useDisplay().name: Vuetify's default thresholds
Breakpoint(w) ==
    IF w < 600 THEN "xs"
    ELSE IF w < 960 THEN "sm"
    ELSE IF w < 1264 THEN "md"
    ELSE IF w < 1904 THEN "lg"
    ELSE "xl"

\* computed itemsPerPage
ItemsPerPageAt(w) ==
    IF Breakpoint(w) = "xs" THEN 1
    ELSE IF Breakpoint(w) = "sm" THEN 2
    ELSE IF w >= 1600 THEN 10
    ELSE 8

ItemsPerPage == ItemsPerPageAt(width)

\* value.find(({ asset }) => asset === id): the first match, or none
FindPrice(fetched, id) ==
    LET hits == {i \in 1..Len(fetched) : fetched[i].asset = id}
    IN  IF hits = {} THEN <<>> ELSE <<fetched[Min(hits)]>>

\* A plausible slip: a fetched price is used whether or not it was manually input.
PriceDetailsAnyPrice(fetched, nft) ==
    LET price == FindPrice(fetched, nft.tokenIdentifier)
    IN  IF price # <<>>
        THEN [priceAsset |-> price[1].priceAsset, priceInAsset |-> price[1].priceInAsset,
              priceUsd |-> price[1].usdPrice]
        ELSE [priceAsset |-> "ETH", priceInAsset |-> nft.priceEth, priceUsd |-> nft.priceUsd]

\* lines 109-128: the price fields of one gallery entry
PriceDetails(fetched, nft) ==
    LET price == FindPrice(fetched, nft.tokenIdentifier)
    IN  IF price # <<>> /\ price[1].manuallyInput
        THEN [priceAsset |-> price[1].priceAsset, priceInAsset |-> price[1].priceInAsset,
              priceUsd |-> price[1].usdPrice]
        ELSE [priceAsset |-> "ETH", priceInAsset |-> nft.priceEth, priceUsd |-> nft.priceUsd]

\* { ...data, ...priceDetails, address }
GalleryNft(fetched, nft, address) ==
    LET priceDetails == PriceDetails(fetched, nft)
    IN  [tokenIdentifier |-> nft.tokenIdentifier, name |-> nft.name,
         collection |-> nft.collection, priceAsset |-> priceDetails.priceAsset,
         priceInAsset |-> priceDetails.priceInAsset, priceUsd |-> priceDetails.priceUsd,
         address |-> address]

RECURSIVE AllNfts(_, _)
\* the two nested loops of `nfts`, in key order then list order
AllNfts(list, fetched) ==
    IF list = <<>> THEN <<>>
    ELSE [i \in 1..Len(Head(list).nfts) |->
             GalleryNft(fetched, Head(list).nfts[i], Head(list).address)]
         \o AllNfts(Tail(list), fetched)

\* computed nfts, evaluated afresh
ComputeNfts(addresses, fetched) ==
    IF addresses.tag = "null" THEN <<>> ELSE AllNfts(addresses.list, fetched)

\* computed availableAddresses
AvailableAddresses ==
    IF perAccount.tag = "null" THEN {}
    ELSE {perAccount.list[i].address : i \in 1..Len(perAccount.list)}

\* computed collections: collection.name ?? '' of every nft
Collections ==
    {IF nftsCache[i].collection.name = Null THEN "" ELSE nftsCache[i].collection.name :
        i \in 1..Len(nftsCache)}

(***************************************************************************)
(* sortNfts and Array.prototype.sort                                       *)
(***************************************************************************)
Sign(n) == IF n < 0 THEN -1 ELSE IF n > 0 THEN 1 ELSE 0

\* typeof x === 'string', for a string | null field
IsString(x) == x # Null

\* JavaScript truthiness of a string | null field
Truthy(x) == x # Null /\ x # ""

\* Intl collation at sensitivity 'base': letter case is ignored
BaseLetters(s) ==
    CASE s = "Ape" -> "ape"
      [] s = "Apes" -> "apes"
      [] OTHER -> s

Collation == <<"", "ape", "apes", "bee", "punks">>

CollationRank(s) == CHOOSE i \in 1..Len(Collation) : Collation[i] = BaseLetters(s)

\* x.localeCompare(y, 'en', { sensitivity: 'base' })
LocaleCompare(x, y) == Sign(CollationRank(x) - CollationRank(y))

\* lines 186-206.  priceUsd is always a BigNumber, name and collection.name are
\* string | null, so the typeof / instanceof tests are decided by the property.
SortNfts(sortProp, desc, a, b) ==
    IF sortProp = "priceUsd"
    THEN IF desc THEN b.priceUsd - a.priceUsd ELSE a.priceUsd - b.priceUsd
    ELSE LET aElement == IF sortProp = "collection" THEN a.collection.name ELSE a.name
             bElement == IF sortProp = "collection" THEN b.collection.name ELSE b.name
         IN  IF IsString(aElement) /\ IsString(bElement)
             THEN IF desc THEN LocaleCompare(bElement, aElement)
                  ELSE LocaleCompare(aElement, bElement)
             ELSE IF aElement = Null /\ bElement = Null THEN 0
             ELSE IF Truthy(aElement) /\ ~Truthy(bElement) THEN (IF desc THEN 1 ELSE -1)
             ELSE IF ~Truthy(aElement) /\ Truthy(bElement) THEN (IF desc THEN -1 ELSE 1)
             ELSE 0

RECURSIVE InsertNft(_, _, _, _)
\* one insertion of a stable sort: x goes behind the last element not greater than it
InsertNft(sorted, x, sortProp, desc) ==
    IF sorted = <<>> THEN <<x>>
    ELSE LET last == sorted[Len(sorted)]
         IN  IF SortNfts(sortProp, desc, last, x) > 0
             THEN Append(InsertNft(SubSeq(sorted, 1, Len(sorted) - 1), x, sortProp, desc), last)
             ELSE Append(sorted, x)

RECURSIVE SortArray(_, _, _)
\* array.sort((a, b) => sortNfts(sortBy, sortDescending, a, b)): a stable sort
SortArray(array, sortProp, desc) ==
    IF array = <<>> THEN <<>>
    ELSE InsertNft(SortArray(SubSeq(array, 1, Len(array) - 1), sortProp, desc),
                   array[Len(array)], sortProp, desc)

(***************************************************************************)
(* items, pages, visibleNfts, noData                                       *)
(***************************************************************************)
\* hasAccounts || selection
FilterActive(accounts, selection) == accounts # {} \/ Truthy(selection)

\* the filter callback of lines 74-80
PassesFilter(nft, accounts, selection) ==
    LET hasAccounts == accounts # {}
        sameAccount == IF hasAccounts THEN nft.address \in accounts ELSE TRUE
        sameCollection == IF Truthy(selection) THEN selection = nft.collection.name ELSE TRUE
    IN  sameAccount /\ sameCollection

RECURSIVE FilterNfts(_, _, _)
FilterNfts(array, accounts, selection) ==
    IF array = <<>> THEN <<>>
    ELSE IF PassesFilter(Head(array), accounts, selection)
         THEN <<Head(array)>> \o FilterNfts(Tail(array), accounts, selection)
         ELSE FilterNfts(Tail(array), accounts, selection)

\* computed items.  Without a filter it is the array of `nfts` itself, which
\* every evaluation sorts in place (see Render).
Items ==
    IF FilterActive(selectedAccounts, selectedCollection)
    THEN SortArray(FilterNfts(nftsCache, selectedAccounts, selectedCollection),
                   sortBy, sortDescending)
    ELSE nftsCache

\* A plausible slip: Math.floor for Math.ceil.
PagesOfFloor(n, perPage) == n \div perPage

\* Math.ceil(n / perPage)
PagesOf(n, perPage) == (n + perPage - 1) \div perPage

\* computed pages
Pages == PagesOf(Len(Items), ItemsPerPage)

\* array.slice(start, end) for 0 <= start <= end
Slice(array, start, end) ==
    SubSeq(array, start + 1, IF end < Len(array) THEN end ELSE Len(array))

\* computed visibleNfts, for page p
VisibleNftsAt(p) ==
    LET start == (p - 1) * ItemsPerPage
    IN  Slice(Items, start, start + ItemsPerPage)

VisibleNfts == VisibleNftsAt(page)

\* computed noData
NoData == Len(VisibleNfts) = 0 /\ ~(Truthy(selectedCollection) \/ selectedAccounts # {})

\* the v-else branch of the template: selectors, pagination and refresh are shown
GalleryShown == ~(loading /\ Len(VisibleNfts) = 0) /\ ~NoData

(***************************************************************************)
(* Gallery operations.  Each ends with the re-render it triggers, which    *)
(* re-evaluates `nfts` (when perAccount or prices were set) and `items`.   *)
(***************************************************************************)
\* What the array held by `nfts` is after `items` has been re-evaluated over
\* `array`: without a filter `items` sorts that very array, with a filter it
\* sorts the copy filter() made.
Render(array, accounts, selection, sortProp, desc) ==
    IF FilterActive(accounts, selection) THEN array
    ELSE SortArray(array, sortProp, desc)

Completed(c) == c \in {"done", "failed"}

\* onMounted(fetchPrices); onMounted(fetchNfts): both run up to their await
Mounted ==
    /\ pricesCall = "idle"
    /\ nftsCall = "idle"
    /\ pricesCall' = "pending"
    /\ loading' = TRUE
    /\ nftsCall' = "pending"
    /\ UNCHANGED <<tokenVars, nightlyVars, overviewVars, tagFilterVars, sortNftsVars>>
    /\ UNCHANGED <<prices, priceError, total, limit, error, perAccount, sortBy,
                   sortDescending, width, page, selectedAccounts, selectedCollection,
                   nftsCache>>

\* A plausible slip: the fetched prices are stored without `nfts` being recomputed.
FetchPricesResolvedStale(data) ==
    /\ pricesCall = "pending"
    /\ prices' = data
    /\ pricesCall' = "done"
    /\ UNCHANGED <<tokenVars, nightlyVars, overviewVars, tagFilterVars, sortNftsVars>>
    /\ UNCHANGED <<priceError, total, limit, error, loading, perAccount, sortBy,
                   sortDescending, width, page, selectedAccounts, selectedCollection,
                   nftsCache, nftsCall>>

\* fetchPrices, after the await: set(prices, data)
FetchPricesResolved(data) ==
    /\ pricesCall = "pending"
    /\ prices' = data
    /\ pricesCall' = "done"
    /\ nftsCache' = Render(ComputeNfts(perAccount, data), selectedAccounts,
                           selectedCollection, sortBy, sortDescending)
    /\ UNCHANGED <<tokenVars, nightlyVars, overviewVars, tagFilterVars, sortNftsVars>>
    /\ UNCHANGED <<priceError, total, limit, error, loading, perAccount, sortBy,
                   sortDescending, width, page, selectedAccounts, selectedCollection,
                   nftsCall>>

FetchPricesResolve == \E data \in PriceResults : FetchPricesResolved(data)

\* fetchPrices, the catch branch: set(priceError, e.message)
FetchPricesRejected ==
    /\ pricesCall = "pending"
    /\ priceError' = "prices unavailable"
    /\ pricesCall' = "failed"
    /\ UNCHANGED <<tokenVars, nightlyVars, overviewVars, tagFilterVars, sortNftsVars>>
    /\ UNCHANGED <<prices, total, limit, error, loading, perAccount, sortBy,
                   sortDescending, width, page, selectedAccounts, selectedCollection,
                   nftsCache, nftsCall>>

\* fetchNfts, after the await, with a result
FetchNftsResult(result) ==
    /\ nftsCall = "pending"
    /\ total' = result.entriesFound
    /\ limit' = result.entriesLimit
    /\ perAccount' = result.addresses
    /\ loading' = FALSE
    /\ nftsCall' = "done"
    /\ nftsCache' = Render(ComputeNfts(result.addresses, prices), selectedAccounts,
                           selectedCollection, sortBy, sortDescending)
    /\ UNCHANGED <<tokenVars, nightlyVars, overviewVars, tagFilterVars, sortNftsVars>>
    /\ UNCHANGED <<prices, priceError, error, sortBy, sortDescending, width, page,
                   selectedAccounts, selectedCollection, pricesCall>>

FetchNftsReturn == \E result \in NftResults : FetchNftsResult(result)

\* A plausible slip: the failure branch returns before set(loading, false).
FetchNftsMessageStillLoading ==
    /\ nftsCall = "pending"
    /\ error' = "nfts unavailable"
    /\ nftsCall' = "failed"
    /\ UNCHANGED <<tokenVars, nightlyVars, overviewVars, tagFilterVars, sortNftsVars>>
    /\ UNCHANGED <<prices, priceError, total, limit, loading, perAccount, sortBy,
                   sortDescending, width, page, selectedAccounts, selectedCollection,
                   nftsCache, pricesCall>>

\* fetchNfts, after the await, with a message and no result
FetchNftsMessage ==
    /\ nftsCall = "pending"
    /\ error' = "nfts unavailable"
    /\ loading' = FALSE
    /\ nftsCall' = "failed"
    /\ UNCHANGED <<tokenVars, nightlyVars, overviewVars, tagFilterVars, sortNftsVars>>
    /\ UNCHANGED <<prices, priceError, total, limit, perAccount, sortBy, sortDescending,
                   width, page, selectedAccounts, selectedCollection, nftsCache,
                   pricesCall>>

\* @refresh="fetchNfts(true)", up to the await; RefreshButton is disabled while loading
Refresh ==
    /\ GalleryShown
    /\ ~loading
    /\ nftsCall # "pending"
    /\ loading' = TRUE
    /\ nftsCall' = "pending"
    /\ UNCHANGED <<tokenVars, nightlyVars, overviewVars, tagFilterVars, sortNftsVars>>
    /\ UNCHANGED <<prices, priceError, total, limit, error, perAccount, sortBy,
                   sortDescending, width, page, selectedAccounts, selectedCollection,
                   nftsCache, pricesCall>>

\* v-model="selectedAccounts" and its watcher
SelectAccounts ==
    /\ GalleryShown
    /\ \E accounts \in SUBSET AvailableAddresses :
        /\ accounts # selectedAccounts
        /\ selectedAccounts' = accounts
        /\ page' = 1
        /\ nftsCache' = Render(nftsCache, accounts, selectedCollection, sortBy, sortDescending)
        /\ UNCHANGED <<tokenVars, nightlyVars, overviewVars, tagFilterVars, sortNftsVars>>
        /\ UNCHANGED <<prices, priceError, total, limit, error, loading, perAccount,
                       sortBy, sortDescending, width, selectedCollection, pricesCall,
                       nftsCall>>

\* v-model="selectedCollection" (an entry of `collections`, or null when cleared)
\* and its watcher
SelectCollection ==
    /\ GalleryShown
    /\ \E selection \in Collections \cup {Null} :
        /\ selection # selectedCollection
        /\ selectedCollection' = selection
        /\ page' = 1
        /\ nftsCache' = Render(nftsCache, selectedAccounts, selection, sortBy, sortDescending)
        /\ UNCHANGED <<tokenVars, nightlyVars, overviewVars, tagFilterVars, sortNftsVars>>
        /\ UNCHANGED <<prices, priceError, total, limit, error, loading, perAccount,
                       sortBy, sortDescending, width, selectedAccounts, pricesCall,
                       nftsCall>>

\* @update:sort-by
UpdateSortBy ==
    /\ GalleryShown
    /\ \E sortProp \in SortProperties :
        /\ sortProp # sortBy
        /\ sortBy' = sortProp
        /\ nftsCache' = Render(nftsCache, selectedAccounts, selectedCollection, sortProp,
                               sortDescending)
        /\ UNCHANGED <<tokenVars, nightlyVars, overviewVars, tagFilterVars, sortNftsVars>>
        /\ UNCHANGED <<prices, priceError, total, limit, error, loading, perAccount,
                       sortDescending, width, page, selectedAccounts, selectedCollection,
                       pricesCall, nftsCall>>

\* @update:sort-desc
UpdateSortDesc ==
    /\ GalleryShown
    /\ sortDescending' = ~sortDescending
    /\ nftsCache' = Render(nftsCache, selectedAccounts, selectedCollection, sortBy,
                           ~sortDescending)
    /\ UNCHANGED <<tokenVars, nightlyVars, overviewVars, tagFilterVars, sortNftsVars>>
    /\ UNCHANGED <<prices, priceError, total, limit, error, loading, perAccount,
                   sortBy, width, page, selectedAccounts, selectedCollection,
                   pricesCall, nftsCall>>

\* <Pagination v-if="pages > 0" v-model="page" :length="pages" />
SelectPage ==
    /\ GalleryShown
    /\ \E p \in 1..Pages :
        /\ p # page
        /\ page' = p
        /\ UNCHANGED <<tokenVars, nightlyVars, overviewVars, tagFilterVars, sortNftsVars>>
        /\ UNCHANGED <<prices, priceError, total, limit, error, loading, perAccount,
                       sortBy, sortDescending, width, selectedAccounts,
                       selectedCollection, nftsCache, pricesCall, nftsCall>>

\* the window is resized; watch(breakpoint) resets the page when the name changes
Resize ==
    \E w \in Widths :
        /\ w # width
        /\ width' = w
        /\ page' = IF Breakpoint(w) # Breakpoint(width) THEN 1 ELSE page
        /\ UNCHANGED <<tokenVars, nightlyVars, overviewVars, tagFilterVars, sortNftsVars>>
        /\ UNCHANGED <<prices, priceError, total, limit, error, loading, perAccount,
                       sortBy, sortDescending, selectedAccounts, selectedCollection,
                       nftsCache, pricesCall, nftsCall>>

NextGallery ==
    \/ Mounted
    \/ FetchPricesResolve
    \/ FetchPricesRejected
    \/ FetchNftsReturn
    \/ FetchNftsMessage
    \/ Refresh
    \/ SelectAccounts
    \/ SelectCollection
    \/ UpdateSortBy
    \/ UpdateSortDesc
    \/ SelectPage
    \/ Resize

(***************************************************************************)
(* Nightly workflow (src/.github/workflows/rotki_nightly.yml)              *)
(***************************************************************************)
TestJobs == {"linux", "macos", "e2e", "unittest-frontend"}
Jobs == TestJobs \cup {"notify"}

\* A plausible slip: e2e declared without its needs.
NeedsE2eFree(job) ==
    CASE job = "macos" -> {"linux"}
      [] job = "notify" -> {"linux", "macos"}
      [] OTHER -> {}

\* needs: of each job
Needs(job) ==
    CASE job = "macos" -> {"linux"}
      [] job = "e2e" -> {"macos"}
      [] job = "notify" -> {"linux", "macos"}
      [] OTHER -> {}

Finished(job) == status[job] \in {"success", "failure"}

\* if: ${{ always() }} on every job but linux, which has the default success()
IfCondition(job) ==
    IF job = "linux" THEN \A n \in Needs(job) : status[n] = "success" ELSE TRUE

\* a job is picked up once all its needs have finished and its `if` holds
CanStart(job) ==
    /\ status[job] = "waiting"
    /\ \A n \in Needs(job) : Finished(n)
    /\ IfCondition(job)

StartJob(job) ==
    /\ CanStart(job)
    /\ status' = [status EXCEPT ![job] = "running"]
    /\ UNCHANGED <<tokenVars, galleryVars, overviewVars, tagFilterVars, sortNftsVars>>
    /\ UNCHANGED notified

\* a called test workflow ends
FinishJob(job) ==
    \E result \in {"success", "failure"} :
        /\ job \in TestJobs
        /\ status[job] = "running"
        /\ status' = [status EXCEPT ![job] = result]
        /\ UNCHANGED <<tokenVars, galleryVars, overviewVars, tagFilterVars, sortNftsVars>>
        /\ UNCHANGED notified

\* the loop over needs.*.result: some entry is "failure"
AnyFailure(results) == "failure" \in results

\* step 'Check if any task failed' of notify
NotifyCheck ==
    /\ status["notify"] = "running"
    /\ UNCHANGED <<tokenVars, galleryVars, overviewVars, tagFilterVars, sortNftsVars>>
    /\ LET data == {status[n] : n \in Needs("notify")}
       IN  IF AnyFailure(data)
           THEN /\ notified' = TRUE
                /\ status' = [status EXCEPT !["notify"] = "failure"]
           ELSE /\ notified' = notified
                /\ status' = [status EXCEPT !["notify"] = "success"]

NextNightly ==
    \/ \E job \in Jobs : StartJob(job)
    \/ \E job \in TestJobs : FinishJob(job)
    \/ NotifyCheck

(***************************************************************************)
(* sortNfts applied to chosen NFTs (NftGallery.vue, lines 180-207)         *)
(***************************************************************************)
\* gallery entries the comparator is tried on: names and collection names that
\* are null, '', equal up to letter case, and different
SortableNfts == {GalleryNft(<<>>, nft, "0x1") : nft \in {Nft1, Nft2, Nft3, Nft4, Nft5}}

NotCompared ==
    [applied |-> FALSE,
     ascending |-> [ab |-> 0, ba |-> 0, bc |-> 0, ac |-> 0],
     descending |-> [ab |-> 0, ba |-> 0, bc |-> 0, ac |-> 0]]

\* sortNfts(sortBy, desc, x, y) for the pairs of a, b, c
SortNftsOver(sortProp, desc, a, b, c) ==
    [ab |-> SortNfts(sortProp, desc, a, b), ba |-> SortNfts(sortProp, desc, b, a),
     bc |-> SortNfts(sortProp, desc, b, c), ac |-> SortNfts(sortProp, desc, a, c)]

ApplySortNfts ==
    /\ ~comparison.applied
    /\ comparison' =
           [applied |-> TRUE,
            ascending |-> SortNftsOver(compared.sortProp, FALSE, compared.a, compared.b,
                                       compared.c),
            descending |-> SortNftsOver(compared.sortProp, TRUE, compared.a, compared.b,
                                        compared.c)]
    /\ UNCHANGED <<tokenVars, galleryVars, nightlyVars, overviewVars, tagFilterVars>>
    /\ UNCHANGED compared

NextSortNfts == ApplySortNfts

(***************************************************************************)
(* DeFi Overview (src/frontend/app/src/components/defi/Overview.vue)       *)
(***************************************************************************)
\* The most assets a summary holds.
MaxAssets == 3

AssetNames == {"DAI", "ETH"}

\* balance.usdValue is a BigNumber, modelled as an integer
UsdValues == 0..2

\* entries of summary.assets
DefiAssets == [asset : AssetNames, balance : [usdValue : UsdValues]]

\* DefiProtocolSummary, reduced to the field `assets` reads
Summaries == [assets : SeqsUpTo(DefiAssets, MaxAssets)]

\* A plausible slip: the branches of the ternary swapped.
CompareUsdValueAscending(a, b) ==
    IF a.balance.usdValue = b.balance.usdValue THEN 0
    ELSE IF a.balance.usdValue > b.balance.usdValue THEN 1 ELSE -1

\* the comparator of lines 26-31
CompareUsdValue(a, b) ==
    IF a.balance.usdValue = b.balance.usdValue THEN 0
    ELSE IF a.balance.usdValue > b.balance.usdValue THEN -1 ELSE 1

RECURSIVE InsertAsset(_, _)
\* one insertion of a stable sort: x goes behind the last element not greater than it
InsertAsset(sorted, x) ==
    IF sorted = <<>> THEN <<x>>
    ELSE LET last == sorted[Len(sorted)]
         IN  IF CompareUsdValue(last, x) > 0
             THEN Append(InsertAsset(SubSeq(sorted, 1, Len(sorted) - 1), x), last)
             ELSE Append(sorted, x)

RECURSIVE SortAssets(_)
\* array.sort(comparator): a stable sort
SortAssets(array) ==
    IF array = <<>> THEN <<>>
    ELSE InsertAsset(SortAssets(SubSeq(array, 1, Len(array) - 1)), array[Len(array)])

\* The parent passes another summary; the computed `assets` becomes dirty and
\* the value it held is dropped.
UpdateSummary ==
    \E new \in Summaries :
        /\ new.assets # passedAssets
        /\ summary' = new
        /\ passedAssets' = new.assets
        /\ assets' = <<>>
        /\ assetsDirty' = TRUE
        /\ UNCHANGED <<tokenVars, galleryVars, nightlyVars, tagFilterVars, sortNftsVars>>

\* A render reaches `v-for="(asset, index) in assets"` and evaluates the
\* computed: assets.sort(...) sorts the array of summary.assets itself and
\* returns that array.
EvaluateAssets ==
    /\ assetsDirty
    /\ LET sorted == SortAssets(summary.assets)
       IN  /\ summary' = [summary EXCEPT !.assets = sorted]
           /\ assets' = sorted
    /\ assetsDirty' = FALSE
    /\ UNCHANGED <<tokenVars, galleryVars, nightlyVars, tagFilterVars, sortNftsVars>>
    /\ UNCHANGED passedAssets

NextOverview ==
    \/ UpdateSummary
    \/ EvaluateAssets

(***************************************************************************)
(* Tag filter (src/unnamed/part_001)                                       *)
(***************************************************************************)
\* The longest selection the parent holds.
MaxTags == 3

TagNames == {"defi", "private", "public"}

NoDuplicates(list) == \A i, j \in 1..Len(list) : list[i] = list[j] => i = j

\* tags.indexOf(tag): the first index holding tag, or -1
IndexOf(list, tag) ==
    LET hits == {i \in 1..Len(list) : list[i] = tag}
    IN  IF hits = {} THEN -1 ELSE Min(hits) - 1

\* how slice() reads an index: a negative one counts from the end
SliceIndex(list, k) ==
    IF k < 0 THEN (IF Len(list) + k < 0 THEN 0 ELSE Len(list) + k)
    ELSE IF k > Len(list) THEN Len(list) ELSE k

\* list.slice(start, end)
SliceBetween(list, start, end) ==
    SubSeq(list, SliceIndex(list, start) + 1, SliceIndex(list, end))

\* list.slice(start)
SliceFrom(list, start) == SubSeq(list, SliceIndex(list, start) + 1, Len(list))

\* [...tags.slice(0, index), ...tags.slice(index + 1)]
WithoutIndex(list, index) == SliceBetween(list, 0, index) \o SliceFrom(list, index + 1)

\* input(tags): emit('input', tags); the parent's v-model applies the list.
\* @input="input($event)": the autocomplete hands over its new selection
Input ==
    \E list \in SeqsUpTo(TagNames, MaxTags) :
        /\ NoDuplicates(list)
        /\ list # tagsValue
        /\ tagsEmitted' = list
        /\ tagsValue' = list
        /\ tagsCall' = [op |-> "input", before |-> tagsValue, tag |-> ""]
        /\ UNCHANGED <<tokenVars, galleryVars, nightlyVars, overviewVars, sortNftsVars>>

\* @click:clear="input([])"
Clear ==
    /\ tagsEmitted' = <<>>
    /\ tagsValue' = <<>>
    /\ tagsCall' = [op |-> "clear", before |-> tagsValue, tag |-> ""]
    /\ UNCHANGED <<tokenVars, galleryVars, nightlyVars, overviewVars, sortNftsVars>>

\* remove(tag): a chip's close button passes the chip's name; the function
\* itself takes any string, so every tag name is tried.
Remove ==
    \E tag \in TagNames :
        LET tags == tagsValue
            index == IndexOf(tags, tag)
            list == WithoutIndex(tags, index)
        IN  /\ Len(list) <= MaxTags
            /\ tagsEmitted' = list
            /\ tagsValue' = list
            /\ tagsCall' = [op |-> "remove", before |-> tags, tag |-> tag]
            /\ UNCHANGED <<tokenVars, galleryVars, nightlyVars, overviewVars, sortNftsVars>>

NextTagFilter ==
    \/ Input
    \/ Clear
    \/ Remove

(***************************************************************************)
(* Specifications: one per component, the other components at rest         *)
(***************************************************************************)
InitTokens ==
    /\ value \in SeqsUpTo(UnderlyingTokens, MaxTokens)
    /\ underlyingAddress = ""
    /\ tokenKind = "erc20"
    /\ underlyingWeight = ""
    /\ emitted = <<>>
    /\ call = [op |-> "none", before |-> value, token |-> NoToken]
    /\ startedDistinct = DistinctAddresses(value)
    /\ owed = {value[i] : i \in 1..Len(value)}
    \* the other components at rest
    /\ prices = <<>>
    /\ priceError = ""
    /\ total = 0
    /\ limit = 0
    /\ error = ""
    /\ loading = TRUE
    /\ perAccount = NullAccounts
    /\ sortBy = "name"
    /\ sortDescending = FALSE
    /\ width = 1500
    /\ page = 1
    /\ selectedAccounts = {}
    /\ selectedCollection = Null
    /\ nftsCache = <<>>
    /\ pricesCall = "idle"
    /\ nftsCall = "idle"
    /\ status = [job \in Jobs |-> "waiting"]
    /\ notified = FALSE
    /\ compared = [a |-> GalleryNft(<<>>, Nft1, "0x1"), b |-> GalleryNft(<<>>, Nft1, "0x1"),
                   c |-> GalleryNft(<<>>, Nft1, "0x1"), sortProp |-> "name"]
    /\ comparison = NotCompared
    /\ summary = [assets |-> <<>>]
    /\ assets = <<>>
    /\ assetsDirty = TRUE
    /\ passedAssets = <<>>
    /\ tagsValue = <<>>
    /\ tagsEmitted = <<>>
    /\ tagsCall = [op |-> "none", before |-> <<>>, tag |-> ""]

InitGallery ==
    /\ prices = <<>>
    /\ priceError = ""
    /\ total = 0
    /\ limit = 0
    /\ error = ""
    /\ loading = TRUE
    /\ perAccount = NullAccounts
    /\ sortBy = "name"
    /\ sortDescending = FALSE
    /\ width \in Widths
    /\ page = 1
    /\ selectedAccounts = {}
    /\ selectedCollection = Null
    /\ nftsCache = <<>>
    /\ pricesCall = "idle"
    /\ nftsCall = "idle"
    \* the other components at rest
    /\ value = <<>>
    /\ underlyingAddress = ""
    /\ tokenKind = "erc20"
    /\ underlyingWeight = ""
    /\ emitted = <<>>
    /\ call = [op |-> "none", before |-> <<>>, token |-> NoToken]
    /\ startedDistinct = TRUE
    /\ owed = {}
    /\ status = [job \in Jobs |-> "waiting"]
    /\ notified = FALSE
    /\ compared = [a |-> GalleryNft(<<>>, Nft1, "0x1"), b |-> GalleryNft(<<>>, Nft1, "0x1"),
                   c |-> GalleryNft(<<>>, Nft1, "0x1"), sortProp |-> "name"]
    /\ comparison = NotCompared
    /\ summary = [assets |-> <<>>]
    /\ assets = <<>>
    /\ assetsDirty = TRUE
    /\ passedAssets = <<>>
    /\ tagsValue = <<>>
    /\ tagsEmitted = <<>>
    /\ tagsCall = [op |-> "none", before |-> <<>>, tag |-> ""]

InitNightly ==
    /\ status = [job \in Jobs |-> "waiting"]
    /\ notified = FALSE
    \* the other components at rest
    /\ value = <<>>
    /\ underlyingAddress = ""
    /\ tokenKind = "erc20"
    /\ underlyingWeight = ""
    /\ emitted = <<>>
    /\ call = [op |-> "none", before |-> <<>>, token |-> NoToken]
    /\ startedDistinct = TRUE
    /\ owed = {}
    /\ prices = <<>>
    /\ priceError = ""
    /\ total = 0
    /\ limit = 0
    /\ error = ""
    /\ loading = TRUE
    /\ perAccount = NullAccounts
    /\ sortBy = "name"
    /\ sortDescending = FALSE
    /\ width = 1500
    /\ page = 1
    /\ selectedAccounts = {}
    /\ selectedCollection = Null
    /\ nftsCache = <<>>
    /\ pricesCall = "idle"
    /\ nftsCall = "idle"
    /\ compared = [a |-> GalleryNft(<<>>, Nft1, "0x1"), b |-> GalleryNft(<<>>, Nft1, "0x1"),
                   c |-> GalleryNft(<<>>, Nft1, "0x1"), sortProp |-> "name"]
    /\ comparison = NotCompared
    /\ summary = [assets |-> <<>>]
    /\ assets = <<>>
    /\ assetsDirty = TRUE
    /\ passedAssets = <<>>
    /\ tagsValue = <<>>
    /\ tagsEmitted = <<>>
    /\ tagsCall = [op |-> "none", before |-> <<>>, tag |-> ""]

InitSortNfts ==
    /\ compared \in [a : SortableNfts, b : SortableNfts, c : SortableNfts, sortProp : SortProperties]
    /\ comparison = NotCompared
    \* the other components at rest
    /\ value = <<>>
    /\ underlyingAddress = ""
    /\ tokenKind = "erc20"
    /\ underlyingWeight = ""
    /\ emitted = <<>>
    /\ call = [op |-> "none", before |-> <<>>, token |-> NoToken]
    /\ startedDistinct = TRUE
    /\ owed = {}
    /\ prices = <<>>
    /\ priceError = ""
    /\ total = 0
    /\ limit = 0
    /\ error = ""
    /\ loading = TRUE
    /\ perAccount = NullAccounts
    /\ sortBy = "name"
    /\ sortDescending = FALSE
    /\ width = 1500
    /\ page = 1
    /\ selectedAccounts = {}
    /\ selectedCollection = Null
    /\ nftsCache = <<>>
    /\ pricesCall = "idle"
    /\ nftsCall = "idle"
    /\ status = [job \in Jobs |-> "waiting"]
    /\ notified = FALSE
    /\ summary = [assets |-> <<>>]
    /\ assets = <<>>
    /\ assetsDirty = TRUE
    /\ passedAssets = <<>>
    /\ tagsValue = <<>>
    /\ tagsEmitted = <<>>
    /\ tagsCall = [op |-> "none", before |-> <<>>, tag |-> ""]

InitOverview ==
    /\ summary \in Summaries
    /\ assets = <<>>
    /\ assetsDirty = TRUE
    /\ passedAssets = summary.assets
    \* the other components at rest
    /\ value = <<>>
    /\ underlyingAddress = ""
    /\ tokenKind = "erc20"
    /\ underlyingWeight = ""
    /\ emitted = <<>>
    /\ call = [op |-> "none", before |-> <<>>, token |-> NoToken]
    /\ startedDistinct = TRUE
    /\ owed = {}
    /\ prices = <<>>
    /\ priceError = ""
    /\ total = 0
    /\ limit = 0
    /\ error = ""
    /\ loading = TRUE
    /\ perAccount = NullAccounts
    /\ sortBy = "name"
    /\ sortDescending = FALSE
    /\ width = 1500
    /\ page = 1
    /\ selectedAccounts = {}
    /\ selectedCollection = Null
    /\ nftsCache = <<>>
    /\ pricesCall = "idle"
    /\ nftsCall = "idle"
    /\ status = [job \in Jobs |-> "waiting"]
    /\ notified = FALSE
    /\ compared = [a |-> GalleryNft(<<>>, Nft1, "0x1"), b |-> GalleryNft(<<>>, Nft1, "0x1"),
                   c |-> GalleryNft(<<>>, Nft1, "0x1"), sortProp |-> "name"]
    /\ comparison = NotCompared
    /\ tagsValue = <<>>
    /\ tagsEmitted = <<>>
    /\ tagsCall = [op |-> "none", before |-> <<>>, tag |-> ""]

InitTagFilter ==
    /\ tagsValue \in SeqsUpTo(TagNames, MaxTags)
    /\ tagsEmitted = <<>>
    /\ tagsCall = [op |-> "none", before |-> tagsValue, tag |-> ""]
    \* the other components at rest
    /\ value = <<>>
    /\ underlyingAddress = ""
    /\ tokenKind = "erc20"
    /\ underlyingWeight = ""
    /\ emitted = <<>>
    /\ call = [op |-> "none", before |-> <<>>, token |-> NoToken]
    /\ startedDistinct = TRUE
    /\ owed = {}
    /\ prices = <<>>
    /\ priceError = ""
    /\ total = 0
    /\ limit = 0
    /\ error = ""
    /\ loading = TRUE
    /\ perAccount = NullAccounts
    /\ sortBy = "name"
    /\ sortDescending = FALSE
    /\ width = 1500
    /\ page = 1
    /\ selectedAccounts = {}
    /\ selectedCollection = Null
    /\ nftsCache = <<>>
    /\ pricesCall = "idle"
    /\ nftsCall = "idle"
    /\ status = [job \in Jobs |-> "waiting"]
    /\ notified = FALSE
    /\ compared = [a |-> GalleryNft(<<>>, Nft1, "0x1"), b |-> GalleryNft(<<>>, Nft1, "0x1"),
                   c |-> GalleryNft(<<>>, Nft1, "0x1"), sortProp |-> "name"]
    /\ comparison = NotCompared
    /\ summary = [assets |-> <<>>]
    /\ assets = <<>>
    /\ assetsDirty = TRUE
    /\ passedAssets = <<>>

SpecTokens == InitTokens /\ [][NextTokens]_vars

SpecGallery == InitGallery /\ [][NextGallery]_vars

SpecNightly == InitNightly /\ [][NextNightly]_vars

SpecSortNfts == InitSortNfts /\ [][NextSortNfts]_vars

SpecOverview == InitOverview /\ [][NextOverview]_vars

SpecTagFilter == InitTagFilter /\ [][NextTagFilter]_vars

(***************************************************************************)
(* Claims: the underlying-token manager (SpecTokens)                       *)
(***************************************************************************)
\* C1: addToken is an upsert keyed by address.  When the list it read has a
\* token with the form's address, the emitted list has the same length, holds
\* the form's (address, tokenKind, weight) at the index findIndex found and the
\* old token at every other index; when no token has that address, the emitted
\* list is the old list with the form's token appended.
C1_AddTokenUpserts ==
    call.op = "addToken" =>
        LET before == call.before
            token == call.token
            hits == {i \in 1..Len(before) : before[i].address = token.address}
        IN  IF hits # {}
            THEN /\ Len(emitted) = Len(before)
                 /\ \A i \in 1..Len(before) :
                        emitted[i] = IF i = Min(hits) THEN token ELSE before[i]
            ELSE /\ Len(emitted) = Len(before) + 1
                 /\ \A i \in 1..Len(before) : emitted[i] = before[i]
                 /\ emitted[Len(emitted)] = token

\* C1 witness: addToken replaced a different token that was not the first of the list.
C1_Witness ==
    /\ call.op = "addToken"
    /\ \E i \in 2..Len(call.before) :
        /\ call.before[i].address = call.token.address
        /\ call.before[i] # call.token
        /\ \A j \in 1..(i - 1) : call.before[j].address # call.token.address
        /\ emitted[i] = call.token

\* C2: deleteToken(address) emits the list it read without the tokens whose
\* address equals the argument, the others in their original relative order;
\* when no token has that address the emitted list equals the list it read.
C2_DeleteTokenFilters ==
    call.op = "deleteToken" =>
        LET before == call.before
            kept == {i \in 1..Len(before) : before[i].address # call.token.address}
        IN  /\ Len(emitted) = Cardinality(kept)
            /\ \A i \in kept : emitted[Cardinality({j \in kept : j <= i})] = before[i]
            /\ kept = 1..Len(before) => emitted = before

\* C2 witness: two tokens with the address were removed around one that was kept.
C2_Witness ==
    /\ call.op = "deleteToken"
    /\ Len(call.before) = 3
    /\ call.before[1].address = call.token.address
    /\ call.before[2].address # call.token.address
    /\ call.before[3].address = call.token.address
    /\ emitted = <<call.before[2]>>

\* C3: a list that started with pairwise distinct addresses still has pairwise
\* distinct addresses after any sequence of addToken, editToken and deleteToken
\* (the parent applying every emitted list).
C3_AddressesStayDistinct == startedDistinct => DistinctAddresses(value)

\* C3 witness: addToken was given an address the list already had, and the
\* list changed.
C3_Witness ==
    /\ startedDistinct
    /\ call.op = "addToken"
    /\ Len(value) >= 2
    /\ FindIndex(call.before, call.token.address) >= 0
    /\ call.before # value

\* the form fields hold the token
InForm(t) ==
    /\ underlyingAddress = t.address
    /\ tokenKind = t.tokenKind
    /\ underlyingWeight = t.weight

InList(t) == \E i \in 1..Len(value) : value[i] = t

\* every token still owed is in the list or in the form fields
OwedTokensHeld == \A t \in owed : InList(t) \/ InForm(t)

\* C14: editing never loses a token.  An editToken or addToken step taken
\* when every token of the initial list that no deleteToken removed and no
\* addToken replaced is in the list or in the form fields (address, tokenKind,
\* weight) leaves every such token in the list or in the form fields.
C14_Step ==
    (startedDistinct /\ call'.op \in {"editToken", "addToken"} /\ OwedTokensHeld)
        => OwedTokensHeld'

C14_EditingLosesNoToken == [][C14_Step]_vars

(***************************************************************************)
(* Claims: the nightly workflow (SpecNightly)                              *)
(***************************************************************************)
\* C7: macos never starts before linux has finished, e2e never starts before
\* macos has finished, macos and e2e can start although their predecessor
\* failed, and unittest-frontend can start whatever the other jobs do.
C7_PlatformSuitesInOrder ==
    /\ status["macos"] # "waiting" => Finished("linux")
    /\ status["e2e"] # "waiting" => Finished("macos")
    /\ (status["linux"] = "failure" /\ status["macos"] = "waiting")
            => ENABLED StartJob("macos")
    /\ (status["macos"] = "failure" /\ status["e2e"] = "waiting")
            => ENABLED StartJob("e2e")
    /\ status["unittest-frontend"] = "waiting" => ENABLED StartJob("unittest-frontend")

\* C7 witness: linux and macos both failed and e2e is running.
C7_Witness ==
    /\ status["linux"] = "failure"
    /\ status["macos"] = "failure"
    /\ status["e2e"] = "running"
    /\ status["unittest-frontend"] = "waiting"

\* C8: when the workflow has ended, notify sent the webhook and failed if any
\* of linux, macos, e2e, unittest-frontend ended with 'failure', and sent
\* nothing and succeeded if none did.
C8_NotifyReportsAnyFailure ==
    (\A job \in Jobs : Finished(job)) =>
        LET anyFailed == \E job \in TestJobs : status[job] = "failure"
        IN  /\ notified <=> anyFailed
            /\ status["notify"] = IF anyFailed THEN "failure" ELSE "success"

(***************************************************************************)
(* Claims: the NFT gallery (SpecGallery)                                   *)
(***************************************************************************)
\* the nfts of `array` with this token identifier
Occurrences(array, id) == {i \in 1..Len(array) : array[i].tokenIdentifier = id}

\* two arrays hold the same entries, in whatever order
SameEntries(a, b) ==
    /\ Len(a) = Len(b)
    /\ \A i \in 1..Len(a) :
        Cardinality({j \in 1..Len(a) : a[j] = a[i]}) = Cardinality({j \in 1..Len(b) : b[j] = a[i]})

\* C4: an NFT is in items if and only if (no account is selected or its
\* address is the address of a selected account) and (no collection is
\* selected or its collection name equals the selected collection).
C4_ItemsAreTheFilteredNfts ==
    LET passes(nft) ==
            /\ selectedAccounts = {} \/ nft.address \in selectedAccounts
            /\ selectedCollection = Null \/ nft.collection.name = selectedCollection
    IN  /\ \A i \in 1..Len(nftsCache) :
            passes(nftsCache[i]) <=> \E j \in 1..Len(Items) : Items[j] = nftsCache[i]
        /\ \A j \in 1..Len(Items) : \E i \in 1..Len(nftsCache) : nftsCache[i] = Items[j]

\* ascending order of the sort key of two nfts: prices by number, strings by
\* their base letters; nothing is asked of a pair with a null key
KeyAscending(sortProp, a, b) ==
    IF sortProp = "priceUsd" THEN a.priceUsd <= b.priceUsd
    ELSE LET x == IF sortProp = "collection" THEN a.collection.name ELSE a.name
             y == IF sortProp = "collection" THEN b.collection.name ELSE b.name
         IN  (x # Null /\ y # Null) => CollationRank(x) <= CollationRank(y)

\* C5: items is a permutation of the filtered nfts, ordered by the selected
\* sort key: ascending when sortDescending is false, descending when true.
C5_ItemsAreOrdered ==
    /\ SameEntries(Items, FilterNfts(nftsCache, selectedAccounts, selectedCollection))
    /\ \A i, j \in 1..Len(Items) :
        i < j => IF sortDescending THEN KeyAscending(sortBy, Items[j], Items[i])
                 ELSE KeyAscending(sortBy, Items[i], Items[j])

RECURSIVE PagesUpTo(_)
\* the visible lists of pages 1..p, one after the other
PagesUpTo(p) == IF p = 0 THEN <<>> ELSE PagesUpTo(p - 1) \o VisibleNftsAt(p)

\* C6: pages is ceil(|items| / itemsPerPage); page p of 1..pages shows exactly
\* items[(p-1)*itemsPerPage .. p*itemsPerPage - 1] in order; no page is empty,
\* every item is on exactly one page and the pages in order give items.
C6_PagesPartitionItems ==
    LET n == Len(Items)
        per == ItemsPerPage
        last(p) == IF p * per < n THEN p * per ELSE n
    IN  /\ Pages * per >= n
        /\ (Pages - 1) * per < n
        /\ \A p \in 1..Pages :
            /\ VisibleNftsAt(p) # <<>>
            /\ VisibleNftsAt(p) = [k \in 1..(last(p) - (p - 1) * per) |-> Items[(p - 1) * per + k]]
        /\ \A i \in 1..n :
            Cardinality({p \in 1..Pages :
                (p - 1) * per < i /\ i <= (p - 1) * per + Len(VisibleNftsAt(p))}) = 1
        /\ PagesUpTo(Pages) = Items

\* C6 witness: three items at two per page, the second page showing the last one.
C6_Witness ==
    /\ ItemsPerPage = 2
    /\ Len(Items) = 3
    /\ Pages = 2
    /\ page = 2
    /\ VisibleNfts = <<Items[3]>>

RECURSIVE CountNfts(_)
CountNfts(list) == IF list = <<>> THEN 0 ELSE Len(Head(list).nfts) + CountNfts(Tail(list))

\* the price fields C9 asks of the entry made of `nft`
PriceFieldsAsClaimed(entry, nft) ==
    LET manual == {i \in 1..Len(prices) :
                      prices[i].asset = nft.tokenIdentifier /\ prices[i].manuallyInput}
    IN  IF manual # {}
        THEN \E i \in manual :
                /\ entry.priceAsset = prices[i].priceAsset
                /\ entry.priceInAsset = prices[i].priceInAsset
                /\ entry.priceUsd = prices[i].usdPrice
        ELSE /\ entry.priceAsset = "ETH"
             /\ entry.priceInAsset = nft.priceEth
             /\ entry.priceUsd = nft.priceUsd

\* C9: nfts has exactly one entry per NFT of every address of perAccount (its
\* length is the sum of the per-address lengths, and it is empty when
\* perAccount is null); the entry carries the address it was listed under,
\* and the fetched price when one exists for the NFT and is manually input,
\* otherwise 'ETH' with the NFT's own priceEth and priceUsd.
C9_NftsMergePrices ==
    /\ perAccount.tag = "null" => nftsCache = <<>>
    /\ Len(nftsCache) = CountNfts(perAccount.list)
    /\ \A a \in 1..Len(perAccount.list) :
        \A k \in 1..Len(perAccount.list[a].nfts) :
            LET nft == perAccount.list[a].nfts[k]
                found == Occurrences(nftsCache, nft.tokenIdentifier)
            IN  /\ Cardinality(found) = 1
                /\ \A i \in found :
                    /\ nftsCache[i].address = perAccount.list[a].address
                    /\ nftsCache[i].name = nft.name
                    /\ nftsCache[i].collection = nft.collection
                    /\ PriceFieldsAsClaimed(nftsCache[i], nft)

\* C9 witness: four NFTs under two addresses; the price of nft1 was manually
\* input and is shown, the price of nft2 was not and its own ETH price is shown.
C9_Witness ==
    /\ Len(perAccount.list) = 2
    /\ Len(nftsCache) = 4
    /\ Len(prices) = 2
    /\ \E i \in 1..Len(nftsCache) :
        nftsCache[i].tokenIdentifier = "nft1" /\ nftsCache[i].priceAsset = "USD"
    /\ \E i \in 1..Len(nftsCache) :
        nftsCache[i].tokenIdentifier = "nft2" /\ nftsCache[i].priceAsset = "ETH"

\* every entry of `array` shows the own ETH price of its NFT in `addresses`
OwnEthPrices(array, addresses) ==
    \A i \in 1..Len(array) :
        /\ array[i].priceAsset = "ETH"
        /\ \E a \in 1..Len(addresses.list) : \E k \in 1..Len(addresses.list[a].nfts) :
            LET nft == addresses.list[a].nfts[k]
            IN  /\ nft.tokenIdentifier = array[i].tokenIdentifier
                /\ array[i].priceInAsset = nft.priceEth
                /\ array[i].priceUsd = nft.priceUsd

\* a step that completes fetchPrices or fetchNfts and leaves both completed
BothFetchesCompleted ==
    /\ <<pricesCall, nftsCall>>' # <<pricesCall, nftsCall>>
    /\ Completed(pricesCall')
    /\ Completed(nftsCall')

C10_Step ==
    /\ BothFetchesCompleted =>
        /\ SameEntries(nftsCache', ComputeNfts(perAccount', prices'))
        /\ pricesCall' = "failed" =>
            /\ prices' = <<>>
            /\ priceError' # ""
            /\ OwnEthPrices(nftsCache', perAccount')
    /\ (pricesCall = "pending" /\ pricesCall' = "failed") =>
        /\ priceError' # ""
        /\ UNCHANGED <<prices, loading, error, total, limit, perAccount>>

\* C10: whichever of fetchPrices and fetchNfts completes first, once both have
\* completed nfts holds what perAccount and prices yield; a failing price
\* fetch sets priceError and leaves prices empty, loading, error, total, limit
\* and perAccount untouched, and every NFT is shown with its own ETH price.
C10_FetchOrderDoesNotMatter == [][C10_Step]_vars

\* C10 witness: both fetches have completed with data, and the list of four
\* NFTs shows the manually input price of nft1.
C10_Witness ==
    /\ pricesCall = "done"
    /\ nftsCall = "done"
    /\ Len(nftsCache) = 4
    /\ \E i \in 1..Len(nftsCache) :
        nftsCache[i].tokenIdentifier = "nft1" /\ nftsCache[i].priceAsset = "USD"

(***************************************************************************)
(* Claims: fetchNfts, the page and the comparator (SpecGallery,            *)
(* SpecSortNfts)                                                           *)
(***************************************************************************)
\* C11: every fetchNfts call sets loading to true when it starts and to false
\* once the backend call has returned, with a result or without one.  With a
\* result, total, limit and perAccount become the result's entriesFound,
\* entriesLimit and addresses; without one, error becomes the returned message
\* and total, limit and perAccount keep their values.
C11_Step ==
    /\ (nftsCall # "pending" /\ nftsCall' = "pending") => loading'
    /\ (nftsCall = "pending" /\ nftsCall' = "done") =>
           /\ ~loading'
           /\ \E result \in NftResults :
                  /\ total' = result.entriesFound
                  /\ limit' = result.entriesLimit
                  /\ perAccount' = result.addresses
    /\ (nftsCall = "pending" /\ nftsCall' = "failed") =>
           /\ ~loading'
           /\ error' = "nfts unavailable"
           /\ UNCHANGED <<total, limit, perAccount>>

C11_FetchNftsSettles == [][C11_Step]_vars

\* a refresh that failed after an earlier fetch had brought four NFTs: the
\* message is shown, loading is off and the earlier result is still there
C11_Witness ==
    /\ nftsCall = "failed"
    /\ ~loading
    /\ error = "nfts unavailable"
    /\ total = 4
    /\ limit = 5
    /\ perAccount.tag = "nfts"
    /\ Len(perAccount.list) = 2

\* C13: in every reachable state of the gallery the current page is at least 1
\* and at most max(1, pages), so the visible list is non-empty whenever items
\* is non-empty.
C13_PageWithinPages ==
    /\ page >= 1
    /\ page <= (IF Pages > 1 THEN Pages ELSE 1)
    /\ (Items # <<>> => VisibleNfts # <<>>)

\* antisymmetry and transitivity over the compared pairs
Antisymmetric(r) == Sign(r.ab) = -Sign(r.ba)

Transitive(r) == (r.ab <= 0 /\ r.bc <= 0) => r.ac <= 0

NegationOf(r, q) == r.ab = -q.ab /\ r.ba = -q.ba /\ r.bc = -q.bc /\ r.ac = -q.ac

\* C15: for each sort key and each direction sortNfts is a consistent
\* comparator over all NFTs, null and '' keys included:
\* sign(sortNfts(a, b)) = -sign(sortNfts(b, a)), and sortNfts(a, b) <= 0 with
\* sortNfts(b, c) <= 0 implies sortNfts(a, c) <= 0; and the descending result
\* is the negation of the ascending result.
C15_SortNftsConsistent ==
    comparison.applied =>
        /\ Antisymmetric(comparison.ascending)
        /\ Antisymmetric(comparison.descending)
        /\ Transitive(comparison.ascending)
        /\ Transitive(comparison.descending)
        /\ NegationOf(comparison.descending, comparison.ascending)

(***************************************************************************)
(* Claims: the DeFi overview (SpecOverview)                                *)
(***************************************************************************)
CountOf(list, x) == Cardinality({i \in 1..Len(list) : list[i] = x})

IsPermutation(a, b) ==
    /\ Len(a) = Len(b)
    /\ \A i \in 1..Len(a) : CountOf(a, a[i]) = CountOf(b, a[i])

\* C12: once evaluated, the overview's assets list is a permutation of
\* summary.assets (as the parent passed it, and as it is now) ordered by
\* balance.usdValue from highest to lowest: for every two positions i < j the
\* usdValue at i is greater than or equal to the usdValue at j.
C12_AssetsSortedByUsdValue ==
    ~assetsDirty =>
        /\ IsPermutation(assets, passedAssets)
        /\ IsPermutation(assets, summary.assets)
        /\ \A i, j \in 1..Len(assets) :
               i < j => assets[i].balance.usdValue >= assets[j].balance.usdValue

\* three assets passed in ascending order of usdValue have been sorted
C12_Witness ==
    /\ ~assetsDirty
    /\ Len(passedAssets) = 3
    /\ passedAssets[1].balance.usdValue < passedAssets[2].balance.usdValue
    /\ passedAssets[2].balance.usdValue < passedAssets[3].balance.usdValue
    /\ assets = <<passedAssets[3], passedAssets[2], passedAssets[1]>>

\* C16: evaluating the overview's assets list leaves the summary the parent
\* passed unchanged: the elements of summary.assets are in the same order
\* after the evaluation as before it.
C16_SummaryLeftUnchanged ==
    ~assetsDirty => summary.assets = passedAssets

(***************************************************************************)
(* Claims: the tag filter (SpecTagFilter)                                  *)
(***************************************************************************)
Selected(list, tag) == \E i \in 1..Len(list) : list[i] = tag

\* the list without the first occurrence of tag, the other tags in their order
WithoutFirst(list, tag) ==
    LET first == Min({i \in 1..Len(list) : list[i] = tag})
    IN  [i \in 1..(Len(list) - 1) |-> IF i < first THEN list[i] ELSE list[i + 1]]

\* C17: remove(tag) emits the selection it read with the first occurrence of
\* tag removed and every other tag kept in its order, one element shorter;
\* for a tag that is not in the selection it emits the selection as it is.
C17_RemoveDropsFirstOccurrence ==
    tagsCall.op = "remove" =>
        IF Selected(tagsCall.before, tagsCall.tag)
        THEN /\ tagsEmitted = WithoutFirst(tagsCall.before, tagsCall.tag)
             /\ Len(tagsEmitted) = Len(tagsCall.before) - 1
        ELSE tagsEmitted = tagsCall.before

====
